---- MODULE Spec2Model ----
(***************************************************************************)
(* A model of main.py: the scrape / diff / notify / save run of the job    *)
(* scraper, its tab-delimited snapshot file and the change report.         *)
(*                                                                         *)
(* Text is a sequence of atoms.  An atom is one character (a space, a tab, *)
(* a line feed, a carriage return, a double quote, a colon, a slash) or a  *)
(* run of word characters that no operation of the program splits          *)
(* ("Intern", "Status", "position").  Two texts are equal exactly when     *)
(* their atoms are.                                                        *)
(***************************************************************************)
EXTENDS Integers, Sequences, FiniteSets, TLC

\* ------------------------------------------------------------------ atoms
TAB   == "<tab>"
LF    == "<lf>"
CR    == "<cr>"
QUOTE == "<quote>"
SP    == " "
\* The reader's end-of-line marker, fed after every line (never part of a text).
EOL   == "<eol>"

\* str.strip() strips these; a newline character is a line feed or a carriage return.
Whitespace == {SP, TAB, LF, CR}
Newlines   == {LF, CR}
\* \W of the regular expression in scrape_unops: everything that is not a word character.
NonWord    == {SP, TAB, LF, CR, QUOTE, ":", "/", ".", "!", "?", "%", "="}

Min(S) == CHOOSE x \in S : \A y \in S : x <= y
Max(S) == CHOOSE x \in S : \A y \in S : x >= y

\* item.strip()
Strip(s) ==
    LET keep == {i \in 1..Len(s) : s[i] \notin Whitespace}
    IN  IF keep = {} THEN <<>> ELSE SubSeq(s, Min(keep), Max(keep))

\* re.sub('\W', '', text)
SubNonWord(s) == SelectSeq(s, LAMBDA c : c \notin NonWord)

\* sep.join(parts)
RECURSIVE Join(_, _)
Join(parts, sep) ==
    IF parts = <<>> THEN <<>>
    ELSE IF Len(parts) = 1 THEN parts[1]
    ELSE parts[1] \o sep \o Join(Tail(parts), sep)

\* text.split(sep) for a one-atom separator
RECURSIVE Split(_, _)
Split(s, sep) ==
    LET at == {i \in 1..Len(s) : s[i] = sep}
    IN  IF at = {} THEN <<s>>
        ELSE <<SubSeq(s, 1, Min(at) - 1)>> \o Split(SubSeq(s, Min(at) + 1, Len(s)), sep)

\* needle in text, for a one-atom needle
Contains(s, atom) == \E i \in 1..Len(s) : s[i] = atom

\* os.path.dirname(url): everything before the last slash
Dirname(url) ==
    LET at == {i \in 1..Len(url) : url[i] = "/"}
    IN  IF at = {} THEN <<>> ELSE SubSeq(url, 1, Max(at) - 1)

\* ------------------------------------------------------- program constants
fetch_url == <<"https", ":", "/", "/", "boards.greenhouse.io", "/", "fetchrewards">>
StatusMarker == <<"Status", ":">>
Header == << <<"position">>, <<"location">>, <<"link">> >>

\* ------------------------------------------------------------ csv writing
\* csv.writer(fout, delimiter='\t'), QUOTE_MINIMAL, doublequote, lineterminator '\r\n'.
NeedsQuote(field) == \E i \in 1..Len(field) : field[i] \in {TAB, QUOTE, CR, LF}

\* A writer that does not double the quotes inside a quoted field.
DoubleQuotes_None(field) == field

RECURSIVE DoubleQuotes(_)
DoubleQuotes(field) ==
    IF field = <<>> THEN <<>>
    ELSE (IF Head(field) = QUOTE THEN <<QUOTE, QUOTE>> ELSE <<Head(field)>>)
         \o DoubleQuotes(Tail(field))

WriteField(field, alone) ==
    IF NeedsQuote(field) \/ (alone /\ field = <<>>)
    THEN <<QUOTE>> \o DoubleQuotes(field) \o <<QUOTE>>
    ELSE field

RECURSIVE WriteFields(_, _)
WriteFields(rec, alone) ==
    IF rec = <<>> THEN <<>>
    ELSE IF Len(rec) = 1 THEN WriteField(rec[1], alone)
    ELSE WriteField(rec[1], alone) \o <<TAB>> \o WriteFields(Tail(rec), alone)

\* writer.writerow(rec)
WriteRow(rec) == WriteFields(rec, Len(rec) = 1) \o <<CR, LF>>

\* writer.writerows(data): the text that reaches the file (opened 'w' on a POSIX
\* system, so no newline translation on output)
RECURSIVE WriteRows(_)
WriteRows(data) ==
    IF data = <<>> THEN <<>> ELSE WriteRow(Head(data)) \o WriteRows(Tail(data))

\* ------------------------------------------------------------ csv reading
\* open(file, 'r'): universal newlines, "\r\n" and "\r" both read as "\n".
RECURSIVE UniversalNewlines(_)
UniversalNewlines(raw) ==
    IF raw = <<>> THEN <<>>
    ELSE IF Head(raw) = CR
         THEN IF Len(raw) >= 2 /\ raw[2] = LF
              THEN <<LF>> \o UniversalNewlines(SubSeq(raw, 3, Len(raw)))
              ELSE <<LF>> \o UniversalNewlines(Tail(raw))
         ELSE <<Head(raw)>> \o UniversalNewlines(Tail(raw))

\* The reader is handed the file line by line and adds an end-of-line marker
\* after each line.
RECURSIVE LineStream(_)
LineStream(text) ==
    IF text = <<>> THEN <<>>
    ELSE IF Head(text) = LF THEN <<LF, EOL>> \o LineStream(Tail(text))
         ELSE IF Len(text) = 1 THEN <<Head(text), EOL>>
              ELSE <<Head(text)>> \o LineStream(Tail(text))

\* One step of the reader's state machine on atom c.
\* p = [st, field, fields]: the parser state, the field and the record so far.
ParseChar(p, c) ==
    LET eol      == c \in {LF, CR, EOL}
        after    == IF c = EOL THEN "START_RECORD" ELSE "EAT_CRNL"
        saved    == Append(p.fields, p.field)
        startFld ==
            IF eol THEN [st |-> after, field |-> <<>>, fields |-> saved]
            ELSE IF c = QUOTE THEN [p EXCEPT !.st = "IN_QUOTED_FIELD"]
            ELSE IF c = TAB THEN [p EXCEPT !.field = <<>>, !.fields = saved]
            ELSE [p EXCEPT !.st = "IN_FIELD", !.field = Append(p.field, c)]
    IN  CASE p.st = "START_RECORD" ->
               IF c = EOL THEN p
               ELSE IF c \in {LF, CR} THEN [p EXCEPT !.st = "EAT_CRNL"]
               ELSE [startFld EXCEPT !.st = IF @ = "START_RECORD" THEN "START_FIELD" ELSE @]
          [] p.st = "START_FIELD" -> startFld
          [] p.st = "IN_FIELD" ->
               IF eol THEN [st |-> after, field |-> <<>>, fields |-> saved]
               ELSE IF c = TAB
                    THEN [st |-> "START_FIELD", field |-> <<>>, fields |-> saved]
                    ELSE [p EXCEPT !.field = Append(p.field, c)]
          [] p.st = "IN_QUOTED_FIELD" ->
               IF c = EOL THEN p
               ELSE IF c = QUOTE THEN [p EXCEPT !.st = "QUOTE_IN_QUOTED_FIELD"]
               ELSE [p EXCEPT !.field = Append(p.field, c)]
          [] p.st = "QUOTE_IN_QUOTED_FIELD" ->
               IF c = QUOTE
               THEN [p EXCEPT !.st = "IN_QUOTED_FIELD", !.field = Append(p.field, QUOTE)]
               ELSE IF c = TAB
                    THEN [st |-> "START_FIELD", field |-> <<>>, fields |-> saved]
               ELSE IF eol THEN [st |-> after, field |-> <<>>, fields |-> saved]
               ELSE [p EXCEPT !.st = "IN_FIELD", !.field = Append(p.field, c)]
          [] OTHER ->   \* EAT_CRNL
               IF c = EOL THEN [p EXCEPT !.st = "START_RECORD"] ELSE p

ParseStart == [st |-> "START_RECORD", field |-> <<>>, fields |-> <<>>]

\* list(reader): a record is returned whenever the machine is back in
\* START_RECORD at the end of a line; at the end of the input an unterminated
\* quoted field is kept.
RECURSIVE ParseStream(_, _, _)
ParseStream(stream, p, recs) ==
    IF stream = <<>>
    THEN IF p.field # <<>> \/ p.st = "IN_QUOTED_FIELD"
         THEN Append(recs, Append(p.fields, p.field))
         ELSE recs
    ELSE LET q == ParseChar(p, Head(stream))
         IN  IF Head(stream) = EOL /\ q.st = "START_RECORD"
             THEN ParseStream(Tail(stream), ParseStart, Append(recs, q.fields))
             ELSE ParseStream(Tail(stream), q, recs)

\* list(csv.reader(fin, delimiter='\t')) on the content of the file
ReadRows(raw) == ParseStream(LineStream(UniversalNewlines(raw)), ParseStart, <<>>)

\* ------------------------------------------------------------- extraction
\* An anchor of the board page: its text, the texts of the <span> elements of
\* its parent (link.parent.span is the first, or None) and its href.
\* get_positions: the header, then one stripped record per anchor whose text
\* contains 'Intern'; link.parent.span.text raises when the parent has no span.
InternLinks(soup) == SelectSeq(soup, LAMBDA link : Contains(link.text, "Intern"))

get_positions(url, soup) ==
    LET links    == InternLinks(soup)
        base_url == Dirname(url)
    IN  IF \E i \in 1..Len(links) : links[i].spans = <<>>
        THEN [err |-> TRUE, data |-> <<>>]
        ELSE [err |-> FALSE,
              data |-> <<Header>> \o
                       [i \in 1..Len(links) |->
                          << Strip(links[i].text),
                             Strip(links[i].spans[1]),
                             Strip(base_url \o links[i].href) >>]]

\* The tail of scrape_unops: the status cells of the captured page, stripped of
\* non-word characters, behind the marker.
StatusRecord(cells) ==
    <<StatusMarker>> \o [i \in 1..Len(cells) |-> SubNonWord(cells[i])]

\* ---------------------------------------------------------------- compare
Preamble  == <<"New", SP, "positions", ":", SP, LF>>
NoChanges == <<"No", SP, "changes">>
AddedTag    == <<"Added", ":", SP>>
LocationTag == <<"Location", ":", SP>>
LinkTag     == <<"Link", ":", SP>>
RemovedTag  == <<"Removed", ":", SP>>

\* pos in data
In(pos, data) == \E i \in 1..Len(data) : data[i] = pos

\* A loop body that puts the link before the location.
NewLines_SwappedFields(new_pos, old) ==
    IF In(new_pos, old) THEN <<>>
    ELSE IF new_pos[1] = StatusMarker THEN << Join(new_pos, <<SP>>) >>
    ELSE << AddedTag \o new_pos[1], LocationTag \o new_pos[3], LinkTag \o new_pos[2], <<LF>> >>

\* A loop body that joins the status fields without the space.
NewLines_StatusJoinNoSpace(new_pos, old) ==
    IF In(new_pos, old) THEN <<>>
    ELSE IF new_pos[1] = StatusMarker THEN << Join(new_pos, <<>>) >>
    ELSE << AddedTag \o new_pos[1], LocationTag \o new_pos[2], LinkTag \o new_pos[3], <<LF>> >>

\* The body of the loop over new: the elements one record adds to changes.
NewLines(new_pos, old) ==
    IF In(new_pos, old) THEN <<>>
    ELSE IF new_pos[1] = StatusMarker THEN << Join(new_pos, <<SP>>) >>
    ELSE << AddedTag \o new_pos[1], LocationTag \o new_pos[2], LinkTag \o new_pos[3], <<LF>> >>

\* A loop body that reports only the records that are in new.
OldLines_Inverted(old_pos, new) ==
    IF In(old_pos, new) THEN << RemovedTag \o old_pos[1] >> ELSE <<>>

\* The body of the loop over old.
OldLines(old_pos, new) ==
    IF In(old_pos, new) THEN <<>> ELSE << RemovedTag \o old_pos[1] >>

RECURSIVE AllNewLines(_, _)
AllNewLines(new, old) ==
    IF new = <<>> THEN <<>> ELSE NewLines(Head(new), old) \o AllNewLines(Tail(new), old)

RECURSIVE AllOldLines(_, _)
AllOldLines(old, new) ==
    IF old = <<>> THEN <<>> ELSE OldLines(Head(old), new) \o AllOldLines(Tail(old), new)

\* The subscripts of compare that raise IndexError: new_pos[0], new_pos[1],
\* new_pos[2] of a record of new that is not in old, old_pos[0] of a record of
\* old that is not in new.
CompareRaises(new, old) ==
    \/ \E i \in 1..Len(new) :
         /\ ~In(new[i], old)
         /\ \/ Len(new[i]) = 0
            \/ new[i][1] # StatusMarker /\ Len(new[i]) < 3
    \/ \E i \in 1..Len(old) : ~In(old[i], new) /\ Len(old[i]) = 0

\* A compare without the equality test.
Changes_NoEqualTest(new, old) ==
    <<Preamble>> \o AllNewLines(new, old) \o AllOldLines(old, new)

Changes(new, old) ==
    <<Preamble>> \o (IF new = old THEN <<NoChanges>> ELSE <<>>)
                 \o AllNewLines(new, old) \o AllOldLines(old, new)

compare(new, old) ==
    IF CompareRaises(new, old) THEN [err |-> TRUE, text |-> <<>>]
    ELSE [err |-> FALSE, text |-> Join(Changes(new, old), <<LF>>)]

\* ------------------------------------------------------------------ state
VARIABLES
    pc,           \* where the run stands
    html,         \* the parsed board page: a sequence of anchors
    new,          \* the record set of this run
    old,          \* the record set read from the snapshot file
    msg,          \* the report compare returned: [made, text]
    sent,         \* the messages handed to the messaging service in this run
    file,         \* last.csv: [exists, content]
    steps,        \* the calls this run has made, in order
    failedAt,     \* the call that raised, when the run aborted
    fileAtStart,  \* last.csv as it was when the run started
    prevNew       \* <<new>> of the run before, if that run completed; else <<>>

vars == <<pc, html, new, old, msg, sent, file, steps, failedAt, fileAtStart, prevNew>>

\* ------------------------------------------------------------------ inputs
\* The most anchors on the board page.
MaxLinks == 2
\* The most records of a record set handed to compare, write_csv and read_csv
\* on their own.
MaxRecords == 2

\* Anchors the board page may hold.
LinkQuoted == [text  |-> <<SP, "Intern", SP, QUOTE, "A", QUOTE, LF>>,
               spans |-> << <<"NY", SP>> >>,
               href  |-> <<"/", "a">>]
LinkCarriage == [text  |-> <<"Intern", CR, "B">>,
               spans |-> << <<"L", TAB, "A">>, <<"new">> >>,
               href  |-> <<"/", "b">>]
LinkOther  == [text  |-> <<"Manager">>,
               spans |-> <<>>,
               href  |-> <<"/", "m">>]
LinkNoSpan == [text  |-> <<"Intern", "al", SP, "Audit">>,
               spans |-> <<>>,
               href  |-> <<"/", "x">>]
Links == {LinkQuoted, LinkCarriage, LinkOther, LinkNoSpan}

SeqsUpTo(S, n) == UNION {[1..k -> S] : k \in 0..n}

\* The pages requests.get may return.
Pages == SeqsUpTo(Links, MaxLinks)

\* The status cells the portal page may show after the login.
PortalPages == { <<>>,
                 << <<"Pending">> >>,
                 << <<"Under", SP, "Review", "!">>, <<"?">> >> }

\* last.csv before the first run: absent, empty, a header line, a blank line,
\* a hand-written snapshot.
NoFile == [exists |-> FALSE, content |-> <<>>]
OnDisk(text) == [exists |-> TRUE, content |-> text]
SeedFiles ==
    { NoFile,
      OnDisk(<<>>),
      OnDisk(<<"position", TAB, "location", TAB, "link", LF>>),
      OnDisk(<<LF>>),
      OnDisk(<<"title", TAB, "city", LF, "Status", ":", TAB, "Pending", LF>>) }

\* Records for compare, write_csv and read_csv on their own.
PureRecords ==
    { <<>>,
      << <<>> >>,
      << <<"a">>, <<>> >>,
      << <<"a", QUOTE, "b">>, <<SP, "g", SP>>, <<"a">> >>,
      << <<"x", TAB, "y">>, <<"c", LF, "d">> >>,
      << <<"e", CR, "f">> >>,
      << StatusMarker, <<"a">> >>,
      << <<QUOTE>> >> }
PureSets == SeqsUpTo(PureRecords, MaxRecords)

NoMsg == [made |-> FALSE, text |-> <<>>]

\* ------------------------------------------------------------------- a run
Init ==
    /\ pc = "start"
    /\ html = <<>>
    /\ new = <<>>
    /\ old = <<>>
    /\ msg = NoMsg
    /\ sent = <<>>
    /\ file \in SeedFiles
    /\ steps = <<>>
    /\ failedAt = "none"
    /\ fileAtStart = file
    /\ prevNew = <<>>

Abort(call) ==
    /\ pc' = "aborted"
    /\ failedAt' = call

\* html = get_data(fetch_url)
GetData ==
    /\ pc = "start"
    /\ steps' = Append(steps, "get_data")
    /\ \E page \in Pages : html' = page
    /\ pc' = "fetched"
    /\ UNCHANGED <<new, old, msg, sent, file, failedAt, fileAtStart, prevNew>>

\* requests.get raises
GetDataFail ==
    /\ pc = "start"
    /\ steps' = Append(steps, "get_data")
    /\ Abort("fetch")
    /\ UNCHANGED <<html, new, old, msg, sent, file, fileAtStart, prevNew>>

\* new = get_positions(fetch_url, html); html is not read again
GetPositions ==
    /\ pc = "fetched"
    /\ steps' = Append(steps, "get_positions")
    /\ LET r == get_positions(fetch_url, html)
       IN  IF r.err
           THEN Abort("extract") /\ UNCHANGED new
           ELSE new' = r.data /\ pc' = "extracted" /\ UNCHANGED failedAt
    /\ html' = <<>>
    /\ UNCHANGED <<old, msg, sent, file, fileAtStart, prevNew>>

DriverStep(from, call, to) ==
    /\ pc = from
    /\ steps' = Append(steps, call)
    /\ pc' = to
    /\ UNCHANGED <<html, new, old, msg, sent, file, failedAt, fileAtStart, prevNew>>

\* A submit followed by a settle wait.
Submit_ThenSleep ==
    /\ pc = "pass_filled"
    /\ steps' = steps \o <<"submit.click", "time.sleep">>
    /\ pc' = "submitted"
    /\ UNCHANGED <<html, new, old, msg, sent, file, failedAt, fileAtStart, prevNew>>

\* scrape_unops, call by call
DriverGet    == DriverStep("extracted", "driver.get", "navigated")
Sleep        == DriverStep("navigated", "time.sleep", "settled")
FillUsername == DriverStep("settled", "username.send_keys", "user_filled")
FillPassword == DriverStep("user_filled", "password.send_keys", "pass_filled")
Submit       == DriverStep("pass_filled", "submit.click", "submitted")

\* html = driver.page_source ... return data; new.append(data)
PageSource ==
    /\ pc = "submitted"
    /\ steps' = Append(steps, "driver.page_source")
    /\ \E cells \in PortalPages : new' = Append(new, StatusRecord(cells))
    /\ pc' = "scraped"
    /\ UNCHANGED <<html, old, msg, sent, file, failedAt, fileAtStart, prevNew>>

\* the driver, driver.get or a find_element_by_id raises
ScrapeFail ==
    /\ pc \in {"extracted", "navigated", "settled", "user_filled", "pass_filled"}
    /\ Abort("scrape")
    /\ UNCHANGED <<html, new, old, msg, sent, file, steps, fileAtStart, prevNew>>

\* old = read_csv(file); open raises when the file is absent
ReadCsv ==
    /\ pc = "scraped"
    /\ steps' = Append(steps, "read_csv")
    /\ IF file.exists
       THEN old' = ReadRows(file.content) /\ pc' = "loaded" /\ UNCHANGED failedAt
       ELSE Abort("load") /\ UNCHANGED old
    /\ UNCHANGED <<html, new, msg, sent, file, fileAtStart, prevNew>>

\* A run that saves the snapshot as soon as the report is made.
Compare_ThenSave ==
    /\ pc = "loaded"
    /\ steps' = Append(steps, "compare")
    /\ LET r == compare(new, old)
       IN  IF r.err
           THEN Abort("diff") /\ UNCHANGED <<msg, file>>
           ELSE /\ msg' = [made |-> TRUE, text |-> r.text]
                /\ pc' = "compared"
                /\ file' = OnDisk(WriteRows(new))
                /\ UNCHANGED failedAt
    /\ UNCHANGED <<html, new, old, sent, fileAtStart, prevNew>>

\* msg = compare(new, old)
Compare ==
    /\ pc = "loaded"
    /\ steps' = Append(steps, "compare")
    /\ LET r == compare(new, old)
       IN  IF r.err
           THEN Abort("diff") /\ UNCHANGED msg
           ELSE msg' = [made |-> TRUE, text |-> r.text] /\ pc' = "compared"
                /\ UNCHANGED failedAt
    /\ UNCHANGED <<html, new, old, sent, file, fileAtStart, prevNew>>

\* send_text(msg)
SendText ==
    /\ pc = "compared"
    /\ steps' = Append(steps, "send_text")
    /\ sent' = Append(sent, msg.text)
    /\ pc' = "sent"
    /\ UNCHANGED <<html, new, old, msg, file, failedAt, fileAtStart, prevNew>>

\* the messaging service raises
SendTextFail ==
    /\ pc = "compared"
    /\ steps' = Append(steps, "send_text")
    /\ Abort("send")
    /\ UNCHANGED <<html, new, old, msg, sent, file, fileAtStart, prevNew>>

\* A write_csv that opens the file for appending.
WriteCsv_Append ==
    /\ pc = "sent"
    /\ steps' = Append(steps, "write_csv")
    /\ file' = OnDisk(file.content \o WriteRows(new))
    /\ pc' = "done"
    /\ UNCHANGED <<html, new, old, msg, sent, failedAt, fileAtStart, prevNew>>

\* write_csv(file, new): open(file, 'w') then writerows
WriteCsv ==
    /\ pc = "sent"
    /\ steps' = Append(steps, "write_csv")
    /\ file' = OnDisk(WriteRows(new))
    /\ pc' = "done"
    /\ UNCHANGED <<html, new, old, msg, sent, failedAt, fileAtStart, prevNew>>

\* write_csv raises: at open (the file is as it was), or in writerows after
\* open(file, 'w') emptied the file and k rows were written
WriteCsvFail ==
    /\ pc = "sent"
    /\ steps' = Append(steps, "write_csv")
    /\ \/ file' = file
       \/ \E k \in 0..(Len(new) - 1) : file' = OnDisk(WriteRows(SubSeq(new, 1, k)))
    /\ Abort("save")
    /\ UNCHANGED <<html, new, old, msg, sent, fileAtStart, prevNew>>

\* the next scheduled run of the script
NextRun ==
    /\ pc \in {"done", "aborted"}
    /\ pc' = "start"
    /\ prevNew' = IF pc = "done" THEN <<new>> ELSE <<>>
    /\ fileAtStart' = file
    /\ html' = <<>>
    /\ new' = <<>>
    /\ old' = <<>>
    /\ msg' = NoMsg
    /\ sent' = <<>>
    /\ steps' = <<>>
    /\ failedAt' = "none"
    /\ UNCHANGED file

Next ==
    \/ GetData
    \/ GetDataFail
    \/ GetPositions
    \/ DriverGet
    \/ Sleep
    \/ FillUsername
    \/ FillPassword
    \/ Submit
    \/ PageSource
    \/ ScrapeFail
    \/ ReadCsv
    \/ Compare
    \/ SendText
    \/ SendTextFail
    \/ WriteCsv
    \/ WriteCsvFail
    \/ NextRun

Spec == Init /\ [][Next]_vars

\* ------------------------------- compare, write_csv and read_csv on their own
PureInit ==
    /\ pc = "pure"
    /\ html = <<>>
    /\ new \in PureSets
    /\ old = <<>>
    /\ msg = NoMsg
    /\ sent = <<>>
    /\ file = NoFile
    /\ steps = <<>>
    /\ failedAt = "none"
    /\ fileAtStart = NoFile
    /\ prevNew = <<>>

\* compare(X, X)
PureSame ==
    /\ pc = "pure"
    /\ old' = new
    /\ LET r == compare(new, new) IN msg' = [made |-> ~r.err, text |-> r.text]
    /\ pc' = "pure_same"
    /\ UNCHANGED <<html, new, sent, file, steps, failedAt, fileAtStart, prevNew>>

\* write_csv(path, X)
PureSave ==
    /\ pc = "pure"
    /\ file' = OnDisk(WriteRows(new))
    /\ pc' = "pure_saved"
    /\ UNCHANGED <<html, new, old, msg, sent, steps, failedAt, fileAtStart, prevNew>>

\* read_csv(path)
PureLoad ==
    /\ pc = "pure_saved"
    /\ old' = ReadRows(file.content)
    /\ pc' = "pure_loaded"
    /\ UNCHANGED <<html, new, msg, sent, file, steps, failedAt, fileAtStart, prevNew>>

PureNext ==
    \/ PureSame
    \/ PureSave
    \/ PureLoad

SpecPure == PureInit /\ [][PureNext]_vars

\* ----------------------------------------------------------- the report
Lines(text) == Split(text, LF)

HasLine(text, line) ==
    LET have == Lines(text) IN \E k \in 1..Len(have) : have[k] = line

\* the lines of block are consecutive lines of text
HasBlock(text, block) ==
    LET have == Lines(text)
        want == Lines(Join(block, <<LF>>))
    IN  \E k \in 0..(Len(have) - Len(want)) :
            \A j \in 1..Len(want) : have[k + j] = want[j]

StartsWith(line, tag) == Len(line) >= Len(tag) /\ SubSeq(line, 1, Len(tag)) = tag

\* the report has an Added block, a Status echo or a Removed line
HasChangeLine(text) ==
    LET have == Lines(text)
    IN  \E k \in 1..Len(have) :
            \/ StartsWith(have[k], AddedTag)
            \/ StartsWith(have[k], StatusMarker)
            \/ StartsWith(have[k], RemovedTag)

\* no field holds a tab or a newline character
NoTabNewline(data) ==
    \A i \in 1..Len(data) : \A j \in 1..Len(data[i]) : \A k \in 1..Len(data[i][j]) :
        data[i][j][k] \notin ({TAB} \cup Newlines)

\* old has been read in this run
Loaded ==
    \/ pc \in {"loaded", "compared", "sent", "done"}
    \/ pc = "aborted" /\ failedAt \in {"diff", "send", "save"}

\* ------------------------------------------------------------------ claims
\* C1: compare(X, X) returns a report with the line 'No changes' and without
\* an Added block, a Status echo or a Removed line.
C1_SameNoChanges ==
    pc = "pure_same" =>
        /\ msg.made
        /\ HasLine(msg.text, NoChanges)
        /\ ~HasChangeLine(msg.text)

C1_Witness ==
    /\ pc = "pure_same"
    /\ Len(new) = 2
    /\ new[1] = <<>>
    /\ new[2] = << StatusMarker, <<"a">> >>

C4_StatusEcho ==
    msg.made =>
        \A i \in 1..Len(new) :
            (new[i][1] = StatusMarker /\ ~In(new[i], old)) =>
                /\ LET have == Lines(msg.text)
                       echo == Join(new[i], <<SP>>)
                   IN  Cardinality({k \in 1..Len(have) : have[k] = echo}) = 1
                /\ ~HasLine(msg.text, AddedTag \o new[i][1])

C4_Witness ==
    /\ msg.made
    /\ \E i \in 1..Len(new) :
         /\ new[i][1] = StatusMarker
         /\ Len(new[i]) = 3
         /\ ~In(new[i], old)

\* C5: write_csv(path, X) then read_csv(path) returns X, for every X whose
\* fields hold no tab and no newline character.
C5_RoundTrip ==
    (pc = "pure_loaded" /\ NoTabNewline(new)) => old = new

C5_Witness ==
    /\ pc = "pure_loaded"
    /\ NoTabNewline(new)
    /\ Len(new) = 2
    /\ new[1] = << <<>> >>
    /\ \E j \in 1..Len(new[2]) : Contains(new[2][j], QUOTE)

\* C6: a run that aborts in the fetch, the extraction, the portal scrape, the
\* load, the diff or the send has not reached write_csv, and the snapshot file
\* is what it was when the run started.
C6_AbortBeforeSave ==
    (pc = "aborted" /\ failedAt \in {"fetch", "extract", "scrape", "load", "diff", "send"}) =>
        /\ ~In("write_csv", steps)
        /\ file = fileAtStart

C6_Witness ==
    /\ pc = "aborted"
    /\ failedAt = "send"
    /\ file.exists
    /\ file.content # WriteRows(new)

\* C7: every run that aborts, whichever call raised, has sent no message and
\* leaves the snapshot file as it was when the run started.
C7_FailedRunLeavesNothing ==
    pc = "aborted" => (sent = <<>> /\ file = fileAtStart)

\* the position of a call in the calls of the run
At(call) == CHOOSE k \in 1..Len(steps) : steps[k] = call

\* C8: in the portal fetch the settle wait comes after the form is submitted
\* and before the page is captured.
C8_SleepAfterSubmit ==
    In("driver.page_source", steps) =>
        \E k \in 1..Len(steps) :
            /\ steps[k] = "time.sleep"
            /\ At("submit.click") < k
            /\ k < At("driver.page_source")

\* C8 as amended: the calls are navigate, settle wait, fill the user name, fill
\* the password, submit, capture; no wait lies between submit and capture.
C8_SleepAfterNavigate ==
    In("driver.page_source", steps) =>
        /\ At("driver.get") < At("time.sleep")
        /\ At("time.sleep") < At("username.send_keys")
        /\ At("username.send_keys") < At("password.send_keys")
        /\ At("password.send_keys") < At("submit.click")
        /\ At("driver.page_source") = At("submit.click") + 1
        /\ Cardinality({k \in 1..Len(steps) : steps[k] = "time.sleep"}) = 1

C8_Witness == In("driver.page_source", steps)

\* C9: when the run before completed and this run extracts the record set that
\* run extracted, with no tab and no newline character in a field, this run
\* loads that record set and its report has the line 'No changes' and no
\* Added block, Status echo or Removed line.
C9_UnchangedRunSaysNoChanges ==
    (prevNew # <<>> /\ Loaded /\ new = prevNew[1] /\ NoTabNewline(new)) =>
        /\ old = new
        /\ failedAt # "diff"
        /\ msg.made => (HasLine(msg.text, NoChanges) /\ ~HasChangeLine(msg.text))
        /\ \A k \in 1..Len(sent) : sent[k] = msg.text

C9_Witness ==
    /\ prevNew # <<>>
    /\ new = prevNew[1]
    /\ NoTabNewline(new)
    /\ Len(new) = 4
    /\ sent # <<>>

\* C10: a report without the line 'No changes' has an Added block, a Status
\* echo or a Removed line.
C10_NeverSilent ==
    (msg.made /\ ~HasLine(msg.text, NoChanges)) => HasChangeLine(msg.text)

====
